---- MODULE Spec2Model ----
(***************************************************************************)
(* Model of obsidian-templater.py: the pipeline of process_doi (metadata   *)
(* lookup and classification, citation key, PDF copy, template filling,    *)
(* markdown file, BibTeX print) and the pure functions it is built from.   *)
(*                                                                         *)
(* Python strings are sequences of one-character strings.  JSON values are *)
(* tagged records: absent key, null, str, int, list, dict.                 *)
(***************************************************************************)
EXTENDS Integers, Sequences, FiniteSets, TLC

(* ---------------------------------------------------------------------- *)
(* Bounds of the explored inputs                                          *)
(* ---------------------------------------------------------------------- *)
MaxPeople == 2
MaxRows == 2

(* ---------------------------------------------------------------------- *)
(* Python str primitives                                                  *)
(* ---------------------------------------------------------------------- *)
Uppers == <<"A","B","C","D","E","F","G","H","I","J","K","L","M",
            "N","O","P","Q","R","S","T","U","V","W","X","Y","Z">>
Lowers == <<"a","b","c","d","e","f","g","h","i","j","k","l","m",
            "n","o","p","q","r","s","t","u","v","w","x","y","z">>
Digits == <<"0","1","2","3","4","5","6","7","8","9">>

Range(s) == {s[i] : i \in DOMAIN s}

IsSpace(c) == c \in {" ", "\t", "\n"}
IsAlnum(c) == c \in Range(Uppers) \cup Range(Lowers) \cup Range(Digits)

LowerChar(c) ==
    IF c \in Range(Uppers)
    THEN Lowers[CHOOSE i \in DOMAIN Uppers : Uppers[i] = c]
    ELSE c

Lower(s) == [i \in DOMAIN s |-> LowerChar(s[i])]

StartsWith(s, p) == Len(p) <= Len(s) /\ SubSeq(s, 1, Len(p)) = p

Contains(s, sub) ==
    \E i \in 0..(Len(s) - Len(sub)) : SubSeq(s, i + 1, i + Len(sub)) = sub

(* str.replace(old, new): every non-overlapping occurrence, left to right *)
RECURSIVE Replace(_, _, _)
Replace(s, old, new) ==
    LET hits == {i \in 1..(Len(s) - Len(old) + 1) :
                    s[i] = old[1] /\ SubSeq(s, i, i + Len(old) - 1) = old}
    IN  IF hits = {} THEN s
        ELSE LET k == CHOOSE i \in hits : \A j \in hits : i <= j
             IN SubSeq(s, 1, k - 1) \o new
                    \o Replace(SubSeq(s, k + Len(old), Len(s)), old, new)

RECURSIVE LStrip(_)
LStrip(s) == IF s # <<>> /\ IsSpace(Head(s)) THEN LStrip(Tail(s)) ELSE s

RECURSIVE RStrip(_)
RStrip(s) ==
    IF s # <<>> /\ IsSpace(s[Len(s)]) THEN RStrip(SubSeq(s, 1, Len(s) - 1)) ELSE s

Strip(s) == RStrip(LStrip(s))

RECURSIVE LastWord(_)
LastWord(s) ==
    IF s = <<>> \/ IsSpace(s[Len(s)]) THEN <<>>
    ELSE LastWord(SubSeq(s, 1, Len(s) - 1)) \o <<s[Len(s)]>>

SplitLast(s) == LastWord(RStrip(s))

RECURSIVE StrOfNat(_)
StrOfNat(n) ==
    IF n < 10 THEN <<Digits[n + 1]>>
    ELSE StrOfNat(n \div 10) \o <<Digits[(n % 10) + 1]>>

(* ---------------------------------------------------------------------- *)
(* JSON values                                                            *)
(* ---------------------------------------------------------------------- *)
Absent == [tag |-> "absent"]
Null == [tag |-> "null"]
S(s) == [tag |-> "str", v |-> s]
N(n) == [tag |-> "int", v |-> n]
L(l) == [tag |-> "list", v |-> l]
D(f) == [tag |-> "dict", v |-> f]

Get(d, key, default) == IF key \in DOMAIN d.v THEN d.v[key] ELSE default

Truthy(x) ==
    CASE x.tag = "absent" -> FALSE
      [] x.tag = "null" -> FALSE
      [] x.tag = "str" -> x.v # <<>>
      [] x.tag = "int" -> x.v # 0
      [] x.tag = "list" -> x.v # <<>>
      [] x.tag = "dict" -> DOMAIN x.v # {}

sNone == <<"N","o","n","e">>

sUnknown == <<"U","n","k","n","o","w","n">>
sProceedingsArticle == <<"p","r","o","c","e","e","d","i","n","g","s","-","a","r","t","i","c","l","e">>
sBookChapter == <<"b","o","o","k","-","c","h","a","p","t","e","r">>
sBook == <<"b","o","o","k">>
sJournalArticle == <<"j","o","u","r","n","a","l","-","a","r","t","i","c","l","e">>
sConference == <<"c","o","n","f","e","r","e","n","c","e">>
sProceedings == <<"p","r","o","c","e","e","d","i","n","g","s">>
sJournal == <<"j","o","u","r","n","a","l">>
sChapter == <<"c","h","a","p","t","e","r">>
LabelConference == <<"C","o","n","f","e","r","e","n","c","e"," ","P","r","o","c","e","e","d","i","n","g","s">>
LabelChapter == <<"B","o","o","k"," ","C","h","a","p","t","e","r">>
LabelBook == <<"B","o","o","k">>
LabelJournal == <<"J","o","u","r","n","a","l"," ","A","r","t","i","c","l","e">>
LabelMisc == <<"M","i","s","c">>

(* repr of a person dict, keys in the order given, family *)
ReprItem(d, key, name) ==
    IF key \in DOMAIN d.v
    THEN << <<"'">> \o name \o <<"'", ":", " ", "'">> \o d.v[key].v \o <<"'">> >>
    ELSE <<>>

RECURSIVE JoinItems(_)
JoinItems(items) ==
    IF items = <<>> THEN <<>>
    ELSE IF Len(items) = 1 THEN items[1]
    ELSE items[1] \o <<",", " ">> \o JoinItems(Tail(items))

(* str(value) and f"{value}" for the JSON values the model produces *)
Format(x) ==
    CASE x.tag = "str" -> x.v
      [] x.tag = "int" -> StrOfNat(x.v)
      [] x.tag = "null" -> sNone
      [] x.tag = "dict" ->
            <<"{">> \o JoinItems(ReprItem(x, "given", <<"g","i","v","e","n">>)
                                 \o ReprItem(x, "family", <<"f","a","m","i","l","y">>))
                   \o <<"}">>
      [] OTHER -> <<>>

(* x or "" *)
OrEmpty(x) == IF Truthy(x) THEN x ELSE S(<<>>)

IsStr(x, s) == x.tag = "str" /\ x.v = s

IsEmptyList(x) == x.tag = "list" /\ x.v = <<>>

(* html.unescape, for the one entity the modelled inputs can spell *)
HtmlUnescape(s) == Replace(s, <<"&","a","m","p",";">>, <<"&">>)

(* ---------------------------------------------------------------------- *)
(* type_fields: citation field <- metadata key, in declared order         *)
(* ---------------------------------------------------------------------- *)
type_fields ==
    [conference |-> << <<"booktitle", "container-title">>,
                       <<"month", "issued.date-parts">>,
                       <<"volume", "volume">>,
                       <<"number", "issue">>,
                       <<"pages", "page">>,
                       <<"series", "collection-title">>,
                       <<"editor", "editor">>,
                       <<"publisher", "publisher">>,
                       <<"address", "publisher-location">>,
                       <<"organization", "event.name">> >>,
     journal |-> << <<"journal", "container-title">>,
                    <<"volume", "volume">>,
                    <<"number", "issue">>,
                    <<"pages", "page">>,
                    <<"issn", "ISSN">> >>,
     book |-> << <<"booktitle", "title">>,
                 <<"publisher", "publisher">>,
                 <<"address", "publisher-location">>,
                 <<"isbn", "ISBN">>,
                 <<"edition", "edition">>,
                 <<"editor", "editor">>,
                 <<"pages", "page">>,
                 <<"series", "container-title">> >>,
     chapter |-> << <<"booktitle", "container-title">>,
                    <<"publisher", "publisher">>,
                    <<"address", "publisher-location">>,
                    <<"pages", "page">>,
                    <<"editor", "editor">>,
                    <<"isbn", "ISBN">>,
                    <<"series", "collection-title">>,
                    <<"edition", "edition">>,
                    <<"chapter", "chapter">> >>]

(* ---------------------------------------------------------------------- *)
(* get_metadata_from_doi: classification of the fetched record            *)
(* ---------------------------------------------------------------------- *)
ContainerLower_CaseSensitive(raw) == Get(raw, "container-title", S(<<>>)).v

ContainerLower(raw) == Lower(Get(raw, "container-title", S(<<>>)).v)

(* .lower() on a container-title that is not a string raises; the        *)
(* except clause turns every exception into (None, None).  The `or`      *)
(* short-circuits, so a proceedings-article never reads container-title.  *)
ClassifyRaises(raw) ==
    /\ ~IsStr(Get(raw, "type", Null), sProceedingsArticle)
    /\ Get(raw, "container-title", S(<<>>)).tag # "str"

IsConferenceRecord(raw) ==
    \/ IsStr(Get(raw, "type", Null), sProceedingsArticle)
    \/ Contains(ContainerLower(raw), sConference)
    \/ Contains(ContainerLower(raw), sProceedings)

ClassifyType(raw) ==
    IF IsConferenceRecord(raw) THEN "conference"
    ELSE IF IsStr(Get(raw, "type", Null), sBookChapter) THEN "chapter"
    ELSE IF IsStr(Get(raw, "type", Null), sBook) THEN "book"
    ELSE IF IsStr(Get(raw, "type", Null), sJournalArticle) THEN "journal"
    ELSE "Misc"

TypeLabel(kind) ==
    CASE kind = "conference" -> LabelConference
      [] kind = "chapter" -> LabelChapter
      [] kind = "book" -> LabelBook
      [] kind = "journal" -> LabelJournal
      [] kind = "misc" -> LabelMisc

SetKey(d, key, val) == D((key :> val) @@ d.v)

get_metadata_from_doi(fetched, raw) ==
    IF ~fetched \/ ClassifyRaises(raw)
    THEN [metadata |-> Null, pub_type |-> "None"]
    ELSE [metadata |-> IF ClassifyType(raw) = "Misc" THEN raw
                       ELSE SetKey(raw, "type", S(TypeLabel(ClassifyType(raw)))),
          pub_type |-> ClassifyType(raw)]

(* ---------------------------------------------------------------------- *)
(* Name sanitizer and citation key                                        *)
(* ---------------------------------------------------------------------- *)
PersonField(author, key) == Strip(Get(author, key, S(<<>>)).v)

clean_author_name(author) ==
    IF author.tag = "dict"
    THEN IF PersonField(author, "given") # <<>> \/ PersonField(author, "family") # <<>>
         THEN S(Strip(PersonField(author, "given") \o <<" ">> \o PersonField(author, "family")))
         ELSE Null
    ELSE IF author.tag = "str" /\ Strip(author.v) # <<>>
         THEN S(Strip(author.v))
         ELSE Null

clean_lastname_for_alias(lastname) ==
    IF lastname = <<>> THEN sUnknown
    ELSE Replace(Strip(lastname), <<" ">>, <<"_">>)

RECURSIVE get_first_valid_author(_)
get_first_valid_author(authors) ==
    IF authors = <<>> THEN sUnknown
    ELSE LET author == Head(authors) IN
         IF author.tag = "dict" /\ PersonField(author, "family") # <<>>
         THEN clean_lastname_for_alias(PersonField(author, "family"))
         ELSE IF author.tag = "str" /\ Strip(author.v) # <<>>
         THEN clean_lastname_for_alias(SplitLast(Strip(author.v)))
         ELSE get_first_valid_author(Tail(authors))

IsValidPerson(p) == Truthy(clean_author_name(p))

ValidPeople(metadata, key) == SelectSeq(Get(metadata, key, L(<<>>)).v, IsValidPerson)

(* valid authors, with editors standing in for a Book without authors *)
AuthorsOrEditors(metadata) ==
    IF /\ IsStr(Get(metadata, "type", Null), LabelBook)
       /\ ValidPeople(metadata, "author") = <<>>
       /\ ValidPeople(metadata, "editor") # <<>>
    THEN ValidPeople(metadata, "editor")
    ELSE ValidPeople(metadata, "author")

(* metadata.get("issued", {}).get("date-parts", [[None]])[0]              *)
DateParts(metadata) == Get(Get(metadata, "issued", D(<<>>)), "date-parts", L(<<L(<<Null>>)>>))

DateRaises(metadata) ==
    \/ Get(metadata, "issued", D(<<>>)).tag # "dict"
    \/ DateParts(metadata).tag # "list"
    \/ DateParts(metadata).v = <<>>
    \/ DateParts(metadata).v[1].tag # "list"
    \/ DateParts(metadata).v[1].v = <<>>

YearOf(metadata) == DateParts(metadata).v[1].v[1]

MonthOf(metadata) ==
    IF Len(DateParts(metadata).v[1].v) > 1 THEN DateParts(metadata).v[1].v[2] ELSE Null

MakeAlias(metadata) ==
    get_first_valid_author(AuthorsOrEditors(metadata)) \o Format(YearOf(metadata))

(* ---------------------------------------------------------------------- *)
(* create_bibtex_string                                                   *)
(* ---------------------------------------------------------------------- *)
sAnd == <<" ","a","n","d"," ">>

RECURSIVE Join(_, _)
Join(parts, sep) ==
    IF parts = <<>> THEN <<>>
    ELSE IF Len(parts) = 1 THEN parts[1]
    ELSE parts[1] \o sep \o Join(Tail(parts), sep)

(* "Family, Given" of one person; a.get(...) exists only on a dict *)
BibName(a) ==
    clean_lastname_for_alias(Get(a, "family", S(<<>>)).v)
        \o <<",", " ">> \o Strip(Get(a, "given", S(<<>>)).v)

BibNames(people) == Join([i \in DOMAIN people |-> BibName(people[i])], sAnd)

HasBareString(people) == \E i \in DOMAIN people : people[i].tag # "dict"

(* first element of a list value, the value itself otherwise *)
FirstOf(value, default) ==
    IF value.tag = "list"
    THEN IF value.v # <<>> THEN value.v[1] ELSE default
    ELSE value

BibValue(metadata, key) ==
    Replace(HtmlUnescape(Format(FirstOf(Get(metadata, key, S(<<>>)), S(<<>>)))),
            <<"&">>, <<"\\","&">>)

Field(k, v) == [k |-> k, v |-> v]

SetField(fields, k, v) ==
    [i \in DOMAIN fields |-> IF fields[i].k = k THEN Field(k, v) ELSE fields[i]]

HasField(fields, k) == \E i \in DOMAIN fields : fields[i].k = k

FieldValue(fields, k) == fields[CHOOSE i \in DOMAIN fields : fields[i].k = k].v

BibTypeKey(metadata) ==
    Replace(Lower(Get(metadata, "type", S(<<>>)).v), <<" ">>, <<>>)

EntryType(metadata) ==
    IF Contains(BibTypeKey(metadata), sConference) THEN "inproceedings"
    ELSE IF Contains(BibTypeKey(metadata), sJournal) THEN "article"
    ELSE IF Contains(BibTypeKey(metadata), sBook) /\ ~Contains(BibTypeKey(metadata), sChapter)
    THEN "book"
    ELSE IF Contains(BibTypeKey(metadata), sChapter) THEN "inbook"
    ELSE "misc"

EntryTable(entry_type) ==
    CASE entry_type = "inproceedings" -> type_fields.conference
      [] entry_type = "article" -> type_fields.journal
      [] entry_type = "book" -> type_fields.book
      [] entry_type = "inbook" -> type_fields.chapter
      [] OTHER -> <<>>

CommonFields(metadata) ==
    << Field("author", BibNames(AuthorsOrEditors(metadata))),
       Field("title", BibValue(metadata, "title")),
       Field("year", Format(OrEmpty(YearOf(metadata)))),
       Field("doi", Format(Get(metadata, "DOI", S(<<>>)))),
       Field("type", Format(Get(metadata, "type", S(<<>>)))) >>

MappedFields(metadata) ==
    CommonFields(metadata)
        \o [i \in DOMAIN EntryTable(EntryType(metadata)) |->
                Field(EntryTable(EntryType(metadata))[i][1],
                      BibValue(metadata, EntryTable(EntryType(metadata))[i][2]))]

(* the identifier list overrides: first ISSN / ISBN when the value is a list *)
WithFirstId(metadata, fields, k, key) ==
    IF Get(metadata, key, Null).tag = "list"
    THEN SetField(fields, k, Format(Get(metadata, key, Null).v[1]))
    ELSE fields

WithEditor(metadata, fields) ==
    IF BibNames(ValidPeople(metadata, "editor")) # <<>>
    THEN SetField(fields, "editor", BibNames(ValidPeople(metadata, "editor")))
    ELSE fields

KindFields(metadata) ==
    CASE EntryType(metadata) = "inproceedings" ->
            WithEditor(metadata, MappedFields(metadata))
      [] EntryType(metadata) = "article" ->
            WithFirstId(metadata, MappedFields(metadata), "issn", "ISSN")
      [] EntryType(metadata) = "book" ->
            WithEditor(metadata, WithFirstId(metadata, MappedFields(metadata), "isbn", "ISBN"))
      [] EntryType(metadata) = "inbook" ->
            WithEditor(metadata, WithFirstId(metadata, MappedFields(metadata), "isbn", "ISBN"))
      [] OTHER -> CommonFields(metadata)

BibPages(pages) ==
    IF ~Contains(pages, <<"-","-">>) THEN Replace(pages, <<"-">>, <<"-","-">>) ELSE pages

WithPages(fields) ==
    IF HasField(fields, "pages")
    THEN SetField(fields, "pages", BibPages(FieldValue(fields, "pages")))
    ELSE fields

(* the exceptions of create_bibtex_string on the modelled record shapes: *)
(* .get on a bare-string person, [0] on an empty date-parts or id list   *)
BibtexRaises(metadata) ==
    \/ HasBareString(AuthorsOrEditors(metadata))
    \/ HasBareString(ValidPeople(metadata, "editor"))
    \/ DateRaises(metadata)
    \/ /\ EntryType(metadata) = "article"
       /\ IsEmptyList(Get(metadata, "ISSN", Null))
    \/ /\ EntryType(metadata) \in {"book", "inbook"}
       /\ IsEmptyList(Get(metadata, "ISBN", Null))


(* the characters of a field, entry-type or placeholder name *)
NameChars(name) ==
    CASE name = "author" -> <<"a","u","t","h","o","r">>
      [] name = "title" -> <<"t","i","t","l","e">>
      [] name = "year" -> <<"y","e","a","r">>
      [] name = "doi" -> <<"d","o","i">>
      [] name = "type" -> <<"t","y","p","e">>
      [] name = "booktitle" -> <<"b","o","o","k","t","i","t","l","e">>
      [] name = "month" -> <<"m","o","n","t","h">>
      [] name = "volume" -> <<"v","o","l","u","m","e">>
      [] name = "number" -> <<"n","u","m","b","e","r">>
      [] name = "pages" -> <<"p","a","g","e","s">>
      [] name = "series" -> <<"s","e","r","i","e","s">>
      [] name = "editor" -> <<"e","d","i","t","o","r">>
      [] name = "publisher" -> <<"p","u","b","l","i","s","h","e","r">>
      [] name = "address" -> <<"a","d","d","r","e","s","s">>
      [] name = "organization" -> <<"o","r","g","a","n","i","z","a","t","i","o","n">>
      [] name = "journal" -> <<"j","o","u","r","n","a","l">>
      [] name = "issn" -> <<"i","s","s","n">>
      [] name = "isbn" -> <<"i","s","b","n">>
      [] name = "edition" -> <<"e","d","i","t","i","o","n">>
      [] name = "chapter" -> <<"c","h","a","p","t","e","r">>
      [] name = "inproceedings" -> <<"i","n","p","r","o","c","e","e","d","i","n","g","s">>
      [] name = "article" -> <<"a","r","t","i","c","l","e">>
      [] name = "book" -> <<"b","o","o","k">>
      [] name = "inbook" -> <<"i","n","b","o","o","k">>
      [] name = "misc" -> <<"m","i","s","c">>
      [] name = "alias" -> <<"a","l","i","a","s">>
      [] name = "imported_date" -> <<"i","m","p","o","r","t","e","d","_","d","a","t","e">>
      [] name = "status" -> <<"s","t","a","t","u","s">>
      [] name = "author_list" -> <<"a","u","t","h","o","r","_","l","i","s","t">>
      [] name = "pdf_link" -> <<"p","d","f","_","l","i","n","k">>
      [] name = "bibtex" -> <<"b","i","b","t","e","x">>
      [] name = "sjr_quartile" -> <<"s","j","r","_","q","u","a","r","t","i","l","e">>
      [] name = "h_index" -> <<"h","_","i","n","d","e","x">>
      [] name = "citations_per_doc" -> <<"c","i","t","a","t","i","o","n","s","_","p","e","r","_","d","o","c">>
      [] name = "sjr_publisher" -> <<"s","j","r","_","p","u","b","l","i","s","h","e","r">>
      [] name = "sjr_areas" -> <<"s","j","r","_","a","r","e","a","s">>
      [] name = "sjr_year" -> <<"s","j","r","_","y","e","a","r">>
      [] name = "editor_list" -> <<"e","d","i","t","o","r","_","l","i","s","t">>

(* str.rstrip(chars) *)
RECURSIVE RStripChars(_, _)
RStripChars(s, chars) ==
    IF s # <<>> /\ s[Len(s)] \in chars
    THEN RStripChars(SubSeq(s, 1, Len(s) - 1), chars)
    ELSE s

(* f"\t{key}={{{val}}},\n" *)
BibtexLine(field) ==
    <<"\t">> \o NameChars(field.k) \o <<"=", "{">> \o field.v \o <<"}", ",", "\n">>

(* lines 271-274: the entry as text *)
BibtexText(entry_type, alias, fields) ==
    RStripChars(<<"@">> \o NameChars(entry_type) \o <<"{">> \o alias \o <<",", "\n">>
                    \o Join([i \in DOMAIN fields |-> BibtexLine(fields[i])], <<>>),
                {",", "\n"})
        \o <<"\n", "}">>

create_bibtex_string(metadata, alias) ==
    LET fields == WithPages(KindFields(metadata))
    IN  [tag |-> "bibtex",
         entry_type |-> EntryType(metadata),
         key |-> alias,
         fields |-> fields,
         text |-> BibtexText(EntryType(metadata), alias, fields)]

(* ---------------------------------------------------------------------- *)
(* Journal matcher                                                        *)
(* ---------------------------------------------------------------------- *)
KeepAlnumSpace(c) == IsAlnum(c) \/ IsSpace(c)

normalize_journal_name_KeepCase(name) ==
    IF name = <<>> THEN <<>>
    ELSE Strip(SelectSeq(
            Replace(Replace(Replace(name,
                                    <<" ","&"," ">>, <<" ","a","n","d"," ">>),
                            <<"&">>, <<" ","a","n","d"," ">>),
                    <<"t","h","e"," ">>, <<>>),
            KeepAlnumSpace))

normalize_journal_name(name) ==
    IF name = <<>> THEN <<>>
    ELSE Strip(SelectSeq(
            Replace(Replace(Replace(Lower(name),
                                    <<" ","&"," ">>, sAnd),
                            <<"&">>, sAnd),
                    <<"t","h","e"," ">>, <<>>),
            KeepAlnumSpace))

(* difflib.SequenceMatcher(None, a, b): no junk, and autojunk needs      *)
(* len(b) >= 200.  Positions are 0-based half-open ranges as in difflib.  *)
RECURSIVE RunLen(_, _, _, _, _, _)
RunLen(a, b, i, j, ahi, bhi) ==
    IF i < ahi /\ j < bhi /\ a[i + 1] = b[j + 1]
    THEN 1 + RunLen(a, b, i + 1, j + 1, ahi, bhi)
    ELSE 0

(* find_longest_match: the longest block, earliest in a, then earliest in b *)
find_longest_match(a, b, alo, ahi, blo, bhi) ==
    LET cand == {c \in (alo..(ahi - 1)) \X (blo..(bhi - 1)) : a[c[1] + 1] = b[c[2] + 1]}
        size == [c \in cand |-> RunLen(a, b, c[1], c[2], ahi, bhi)]
        longest == {c \in cand : \A d \in cand : size[c] >= size[d]}
        best == CHOOSE c \in longest :
                    \A d \in longest : c[1] < d[1] \/ (c[1] = d[1] /\ c[2] <= d[2])
    IN  IF cand = {} THEN <<alo, blo, 0>> ELSE <<best[1], best[2], size[best]>>

RECURSIVE Matches(_, _, _, _, _, _)
Matches(a, b, alo, ahi, blo, bhi) ==
    LET m == find_longest_match(a, b, alo, ahi, blo, bhi) IN
    IF m[3] = 0 THEN 0
    ELSE m[3] + Matches(a, b, alo, m[1], blo, m[2])
              + Matches(a, b, m[1] + m[3], ahi, m[2] + m[3], bhi)

(* ratio() = 2.0 * M / T, and 1.0 when T = 0, kept as the fraction num/den *)
Ratio(a, b) ==
    IF Len(a) + Len(b) = 0 THEN [num |-> 1, den |-> 1]
    ELSE [num |-> 2 * Matches(a, b, 0, Len(a), 0, Len(b)), den |-> Len(a) + Len(b)]

RatioGreater(r, q) == r.num * q.den > q.num * r.den

Threshold == [num |-> 9, den |-> 10]
ZeroRatio == [num |-> 0, den |-> 1]

NoMatch == [via |-> "none", row |-> 0]

ExactRows(normalized_search, sjr_data) ==
    {i \in DOMAIN sjr_data : normalize_journal_name(sjr_data[i].Title) = normalized_search}

FuzzyStep_AtLeastThreshold(best, ratio, idx) ==
    IF ~RatioGreater(Threshold, ratio) /\ RatioGreater(ratio, best.ratio)
    THEN [ratio |-> ratio, row |-> idx]
    ELSE best

(* one iteration of the fuzzy loop over the rows, in table order *)
FuzzyStep(best, ratio, idx) ==
    IF RatioGreater(ratio, Threshold) /\ RatioGreater(ratio, best.ratio)
    THEN [ratio |-> ratio, row |-> idx]
    ELSE best

RECURSIVE FuzzyScan(_, _, _, _)
FuzzyScan(normalized_search, sjr_data, idx, best) ==
    IF idx > Len(sjr_data) THEN best
    ELSE FuzzyScan(normalized_search, sjr_data, idx + 1,
                   FuzzyStep(best,
                             Ratio(normalized_search, normalize_journal_name(sjr_data[idx].Title)),
                             idx))

(* The result names the row whose metrics the dict is built from, and the *)
(* step that found it; row 0 stands for None.  sjr_data is Null when the  *)
(* table failed to load, a list of rows otherwise.                        *)
find_journal_metrics(journal_name, sjr_data) ==
    IF sjr_data.tag = "null" \/ journal_name = <<>> THEN NoMatch
    ELSE LET normalized_search == normalize_journal_name(journal_name)
             exact == ExactRows(normalized_search, sjr_data.v)
             fuzzy == FuzzyScan(normalized_search, sjr_data.v, 1, [ratio |-> ZeroRatio, row |-> 0])
         IN  IF exact # {}
             THEN [via |-> "exact", row |-> CHOOSE i \in exact : \A j \in exact : i <= j]
             ELSE IF fuzzy.row # 0 THEN [via |-> "fuzzy", row |-> fuzzy.row]
             ELSE NoMatch

(* ---------------------------------------------------------------------- *)
(* fill_template                                                          *)
(* ---------------------------------------------------------------------- *)
sImported == <<"I","m","p","o","r","t","e","d">>
sNoPDF == <<"N","o","P","D","F">>
sNoAuthors == <<"N","o"," ","a","u","t","h","o","r","s"," ","f","o","u","n","d">>
sPdfNotAvailable == <<"P","D","F"," ","n","o","t"," ","a","v","a","i","l","a","b","l","e">>
sNotInSJR == <<"N","o","t"," ","f","o","u","n","d"," ","i","n"," ","S","J","R">>
sNoAreas == <<"N","o"," ","a","r","e","a","s"," ","f","o","u","n","d">>
sSjrYear == <<"2","0","2","4">>
sBullet == <<" "," ","-"," ","\"">>

DocValue(metadata, key) ==
    HtmlUnescape(Format(FirstOf(Get(metadata, key, S(<<>>)), S(<<>>))))

(* "".join(f'  - "{clean_author_name(p)}"\n' ...), "\n" in front when not empty *)
RECURSIVE BulletLines(_)
BulletLines(people) ==
    IF people = <<>> THEN <<>>
    ELSE sBullet \o clean_author_name(Head(people)).v \o <<"\"", "\n">>
            \o BulletLines(Tail(people))

author_list(metadata) ==
    IF BulletLines(AuthorsOrEditors(metadata)) # <<>>
    THEN <<"\n">> \o BulletLines(AuthorsOrEditors(metadata))
    ELSE sNoAuthors

editor_list(metadata) ==
    IF BulletLines(ValidPeople(metadata, "editor")) # <<>>
    THEN <<"\n">> \o BulletLines(ValidPeople(metadata, "editor"))
    ELSE <<>>

RECURSIVE SplitOn(_, _)
SplitOn(s, c) ==
    IF \A i \in DOMAIN s : s[i] # c THEN <<s>>
    ELSE LET k == CHOOSE i \in DOMAIN s : s[i] = c /\ \A j \in 1..(i - 1) : s[j] # c
         IN <<SubSeq(s, 1, k - 1)>> \o SplitOn(SubSeq(s, k + 1, Len(s)), c)

AreasList(areas) ==
    IF areas.tag = "str"
    THEN [i \in DOMAIN SplitOn(areas.v, ";") |-> Strip(SplitOn(areas.v, ";")[i])]
    ELSE <<>>

AreasMarkdown(areas_list) ==
    IF areas_list # <<>>
    THEN <<"\n">> \o Join([i \in DOMAIN areas_list |-> sBullet \o areas_list[i] \o <<"\"">>],
                          <<"\n">>)
    ELSE sNoAreas

(* placeholders.update(new): replace in place, append new keys *)
RECURSIVE Update(_, _)
Update(placeholders, new) ==
    IF new = <<>> THEN placeholders
    ELSE Update(IF HasField(placeholders, Head(new).k)
                THEN SetField(placeholders, Head(new).k, Head(new).v)
                ELSE Append(placeholders, Head(new)),
                Tail(new))

IssnDoc(metadata) ==
    IF Get(metadata, "ISSN", Null).tag = "list"
    THEN Format(Get(metadata, "ISSN", Null).v[1])
    ELSE Format(Get(metadata, "ISSN", S(<<>>)))

(* metadata.get("ISBN", [""])[0] or "" *)
IsbnRaises(metadata) ==
    \/ Get(metadata, "ISBN", L(<<S(<<>>)>>)).tag \notin {"list", "str"}
    \/ Get(metadata, "ISBN", L(<<S(<<>>)>>)).v = <<>>

IsbnDoc(metadata) ==
    IF Get(metadata, "ISBN", L(<<S(<<>>)>>)).tag = "list"
    THEN Format(OrEmpty(Get(metadata, "ISBN", L(<<S(<<>>)>>)).v[1]))
    ELSE <<Get(metadata, "ISBN", L(<<S(<<>>)>>)).v[1]>>

DocPages(metadata) == Replace(DocValue(metadata, "page"), <<"-","-">>, <<"-">>)

JournalPages(metadata) == DocValue(metadata, "page")

CommonPlaceholders(metadata, pdf_filename, pdf_output_dir, today) ==
    << Field("alias", MakeAlias(metadata)),
       Field("imported_date", today),
       Field("status", IF Truthy(pdf_filename) THEN sImported ELSE sNoPDF),
       Field("author_list", RStrip(author_list(metadata))),
       Field("title", DocValue(metadata, "title")),
       Field("year", Format(OrEmpty(YearOf(metadata)))),
       Field("doi", Format(OrEmpty(Get(metadata, "DOI", S(<<>>))))),
       Field("pdf_link", IF Truthy(pdf_filename) THEN pdf_output_dir \o pdf_filename.v
                         ELSE sPdfNotAvailable) >>

SjrPlaceholders(metrics, sjr_data) ==
    IF metrics.row # 0
    THEN << Field("sjr_quartile", sjr_data.v[metrics.row].Quartile),
            Field("h_index", Replace(sjr_data.v[metrics.row].HIndex, <<",">>, <<".">>)),
            Field("citations_per_doc", Replace(sjr_data.v[metrics.row].Cites, <<",">>, <<".">>)),
            Field("sjr_publisher", sjr_data.v[metrics.row].Publisher),
            Field("sjr_areas", AreasMarkdown(AreasList(sjr_data.v[metrics.row].Areas))),
            Field("sjr_year", sSjrYear) >>
    ELSE << Field("sjr_quartile", sNotInSJR),
            Field("h_index", sNotInSJR),
            Field("citations_per_doc", sNotInSJR),
            Field("sjr_publisher", sNotInSJR),
            Field("sjr_areas", sNotInSJR),
            Field("sjr_year", sNotInSJR) >>

JournalPlaceholders(metadata) ==
    << Field("journal", DocValue(metadata, "container-title")),
       Field("volume", DocValue(metadata, "volume")),
       Field("number", DocValue(metadata, "issue")),
       Field("pages", JournalPages(metadata)),
       Field("issn", IssnDoc(metadata)) >>

ConferencePlaceholders(metadata) ==
    << Field("booktitle", DocValue(metadata, "container-title")),
       Field("month", Format(OrEmpty(MonthOf(metadata)))),
       Field("volume", DocValue(metadata, "volume")),
       Field("number", DocValue(metadata, "issue")),
       Field("pages", DocPages(metadata)),
       Field("series", DocValue(metadata, "collection-title")),
       Field("editor_list", RStrip(editor_list(metadata))),
       Field("publisher", DocValue(metadata, "publisher")),
       Field("address", DocValue(metadata, "publisher-location")),
       Field("organization", DocValue(metadata, "event.name")) >>

BookPlaceholders(metadata) ==
    << Field("booktitle", DocValue(metadata, "title")),
       Field("publisher", DocValue(metadata, "publisher")),
       Field("address", DocValue(metadata, "publisher-location")),
       Field("isbn", IsbnDoc(metadata)),
       Field("edition", DocValue(metadata, "edition")),
       Field("editor_list", RStrip(editor_list(metadata))),
       Field("pages", DocPages(metadata)),
       Field("series", DocValue(metadata, "container-title")) >>

ChapterPlaceholders(metadata) ==
    << Field("booktitle", DocValue(metadata, "container-title")),
       Field("publisher", DocValue(metadata, "publisher")),
       Field("address", DocValue(metadata, "publisher-location")),
       Field("pages", DocPages(metadata)),
       Field("editor_list", RStrip(editor_list(metadata))),
       Field("isbn", IsbnDoc(metadata)),
       Field("series", DocValue(metadata, "collection-title")),
       Field("edition", DocValue(metadata, "edition")),
       Field("chapter", DocValue(metadata, "chapter")) >>

IsJournalArticle(metadata) == IsStr(Get(metadata, "type", Null), LabelJournal)

TypePlaceholders(metadata) ==
    IF IsStr(Get(metadata, "type", Null), LabelConference) THEN ConferencePlaceholders(metadata)
    ELSE IF IsStr(Get(metadata, "type", Null), LabelBook) THEN BookPlaceholders(metadata)
    ELSE IF IsStr(Get(metadata, "type", Null), LabelChapter) THEN ChapterPlaceholders(metadata)
    ELSE <<>>

FillRaises(metadata) ==
    \/ DateRaises(metadata)
    \/ BibtexRaises(metadata)
    \/ IsJournalArticle(metadata) /\ IsEmptyList(Get(metadata, "ISSN", Null))
    \/ /\ \/ IsStr(Get(metadata, "type", Null), LabelBook)
          \/ IsStr(Get(metadata, "type", Null), LabelChapter)
       /\ IsbnRaises(metadata)

JournalMetrics(metadata, sjr_data) ==
    IF IsJournalArticle(metadata)
    THEN find_journal_metrics(DocValue(metadata, "container-title"), sjr_data)
    ELSE NoMatch

(* "{{" + key + "}}" *)
Token(key) == <<"{", "{">> \o NameChars(key) \o <<"}", "}">>

(* lines 598-599: one str.replace per placeholder, in the order of the dict *)
RECURSIVE Substitute(_, _)
Substitute(content, placeholders) ==
    IF placeholders = <<>> THEN content
    ELSE Substitute(Replace(content, Token(Head(placeholders).k), Head(placeholders).v),
                    Tail(placeholders))

(* The result carries the filled text together with the ordered           *)
(* placeholder table, the BibTeX entry and the matched ranking row.       *)
fill_template(template, metadata, pdf_filename, pdf_output_dir, today, sjr_data) ==
    LET journal_metrics == JournalMetrics(metadata, sjr_data)
        bibtex == create_bibtex_string(metadata, MakeAlias(metadata))
        common == Append(CommonPlaceholders(metadata, pdf_filename, pdf_output_dir, today),
                         Field("bibtex", bibtex.text))
        placeholders ==
            Update(IF IsJournalArticle(metadata)
                   THEN Update(Update(common, JournalPlaceholders(metadata)),
                               SjrPlaceholders(journal_metrics, sjr_data))
                   ELSE common,
                   TypePlaceholders(metadata))
    IN  [tag |-> "content",
         alias |-> MakeAlias(metadata),
         bibtex |-> bibtex,
         metrics |-> journal_metrics,
         placeholders |-> placeholders,
         text |-> Substitute(template, placeholders)]

(* ---------------------------------------------------------------------- *)
(* File names                                                             *)
(* ---------------------------------------------------------------------- *)
clean_title_for_filename(title) ==
    Replace(SelectSeq(title, KeepAlnumSpace), <<" ">>, <<"_">>)

MarkdownName(alias, title) ==
    alias \o <<"_">> \o clean_title_for_filename(title) \o <<".","m","d">>

(* alias[-4:] and alias[:-4] *)
Last4(alias) ==
    IF Len(alias) <= 4 THEN alias ELSE SubSeq(alias, Len(alias) - 3, Len(alias))

ButLast4(alias) ==
    IF Len(alias) <= 4 THEN <<>> ELSE SubSeq(alias, 1, Len(alias) - 4)

PdfStem(alias) == clean_lastname_for_alias(ButLast4(alias)) \o Last4(alias)

rename_and_copy_pdf(alias, title) ==
    PdfStem(alias) \o <<"_">> \o clean_title_for_filename(title) \o <<".","p","d","f">>

(* ---------------------------------------------------------------------- *)
(* check_required_fields                                                  *)
(* ---------------------------------------------------------------------- *)
check_required_fields(metadata, pub_type) ==
    IF pub_type \in DOMAIN type_fields
    THEN LET table == type_fields[pub_type]
             missing(i) == ~Truthy(Get(metadata, table[i][2], Null))
         IN [i \in DOMAIN SelectSeq([j \in DOMAIN table |-> j], missing) |->
                table[SelectSeq([j \in DOMAIN table |-> j], missing)[i]][1]]
    ELSE <<>>

(* ---------------------------------------------------------------------- *)
(* Inputs of one run                                                      *)
(* ---------------------------------------------------------------------- *)
MkDict(pairs) ==
    D([k \in {pairs[i][1] : i \in {j \in DOMAIN pairs : pairs[j][2].tag # "absent"}} |->
          pairs[CHOOSE i \in DOMAIN pairs : pairs[i][1] = k][2]])

Person(given, family) == MkDict(<< <<"given", given>>, <<"family", family>> >>)

pSmith == Person(S(<<"J">>), S(<<"S","m","i","t","h">>))
pGivenOnly == Person(S(<<"C","h","e","r">>), Absent)
pBlank == Person(S(<<" ">>), S(<<>>))
pSpaced == Person(S(<<"A">>), S(<<"D","e"," ","L","a">>))
pTabbed == Person(Absent, S(<<"L","e","\t","R","o","y">>))
pBare == S(<<" ","J","a","n","e"," ","D","o","e"," ">>)
pShort == Person(Absent, S(<<"X">>))
pEditor == Person(S(<<"E">>), S(<<"E","d">>))

PersonPool == {pSmith, pGivenOnly, pBlank, pSpaced, pTabbed, pBare, pShort}

SeqsUpTo(pool, n) == UNION {[1..k -> pool] : k \in 0..n}

TypeTokens ==
    {sProceedingsArticle, sBookChapter, sBook, sJournalArticle,
     <<"e","d","i","t","e","d","-","b","o","o","k">>}

ForceTypes == {"conference", "journal", "book", "chapter", "misc"}

Issued(parts) == MkDict(<< <<"date-parts", L(<<L(parts)>>)>> >>)

tNature == <<"N","a","t","u","r","e">>
tMyConference == <<"M","y"," ","C","o","n","f","e","r","e","n","c","e">>
tTitle == <<"D","e","e","p"," ","N","e","t","s">>
tToday == <<"2","0","2","6","-","1","1","-","0","2">>
tPdfDir == <<"p","a","p","e","r","s","/">>

Row(title, quartile, areas) ==
    [Title |-> title, Quartile |-> quartile, HIndex |-> <<"1","2">>,
     Cites |-> <<"3",",","1","4">>, Publisher |-> <<"E","l","s","e","v","i","e","r">>,
     Areas |-> areas]

sAreas == S(<<"M","e","d","i","c","i","n","e",";"," ","L","a","w">>)

RowPool ==
    { Row(<<"L","a","n","c","e","t">>, <<"Q","1">>, sAreas),
      Row(<<"T","h","e"," ","L","a","n","c","e","t">>, <<"Q","2">>, sAreas),
      Row(<<"L","a","n","c","e","t","s">>, <<"Q","3">>, Null),
      Row(<<"L","a","n","c","e","t","x">>, <<"Q","4">>, sAreas),
      Row(<<"A","r","t"," ","a","n","d"," ","L","a","w">>, <<"Q","1">>, sAreas),
      Row(<<"A","r","t"," ","a","n","d"," ","L","a","w","s">>, <<"Q","2">>, sAreas),
      Row(<<"A","r","t"," ","a","n","d"," ","L","a">>, <<"Q","3">>, sAreas) }

QueryPool ==
    { Absent,
      S(tNature),
      S(<<"L","A","N","C","E","T">>),
      S(<<"T","h","e"," ","L","a","n","c","e","t">>),
      S(<<"A","r","t","&","L","a","w">>),
      S(<<"A","r","t"," ","&"," ","L","a","w">>),
      S(<<"A","r","t","a","n","d","l","a","w">>),
      S(<<"T","H","E"," ","A","r","t"," ","A","n","d"," ","L","a","w">>) }

(* a template with one "name: {{name}}" line for every placeholder name *)
tTemplate ==
    LET names ==
          <<"alias", "imported_date", "status", "author_list", "title", "year", "doi",
            "pdf_link", "bibtex", "journal", "volume", "number", "pages", "issn",
            "sjr_quartile", "h_index", "citations_per_doc", "sjr_publisher", "sjr_areas",
            "sjr_year", "booktitle", "month", "series", "editor_list", "publisher",
            "address", "organization", "isbn", "edition", "chapter">>
    IN  Join([i \in DOMAIN names |->
                 NameChars(names[i]) \o <<":", " ">> \o Token(names[i]) \o <<"\n">>],
             <<>>)

Run(fetched, raw, force_type, pdf, sjr_data) ==
    [fetched |-> fetched, raw |-> raw, force_type |-> force_type, pdf |-> pdf,
     sjr_data |-> sjr_data, today |-> tToday, pdf_output_dir |-> tPdfDir,
     template |-> tTemplate]

(* inp.pdf says how the PDF is obtained: "skip" (--skip-pdf), "local" or  *)
(* "local-missing" (--local-pdf, on disk or not), "download" or            *)
(* "download-none" (the download returned a file or nothing)               *)
(* records of every shape: fields absent, null or empty *)
ShapeRuns ==
    { Run(fetched,
          MkDict(<< <<"type", type>>, <<"container-title", container>>,
                    <<"title", title>>, <<"author", author>>,
                    <<"issued", issued>>, <<"ISBN", isbn>> >>),
          force_type, "download-none", Null) :
        fetched \in BOOLEAN,
        type \in {Absent} \cup {S(t) : t \in TypeTokens},
        container \in {Absent, Null, S(tNature), S(tMyConference)},
        title \in {Absent, S(tTitle)},
        author \in {Absent, L(<<pSmith>>)},
        issued \in {Absent, Issued(<<N(2023), N(5)>>), Issued(<<>>), Issued(<<Null>>)},
        isbn \in {Absent, L(<<>>), L(<<S(<<"9">>)>>)},
        force_type \in {"none", "book"} }

(* people lists and years, for the citation key and the file names *)
PeopleRuns ==
    { Run(TRUE,
          MkDict(<< <<"type", S(type)>>, <<"title", S(tTitle)>>,
                    <<"author", L(author)>>, <<"editor", editor>>,
                    <<"issued", issued>> >>),
          "none", pdf, Null) :
        type \in {sBook, sJournalArticle},
        author \in SeqsUpTo(PersonPool, MaxPeople),
        editor \in {Absent, L(<<pEditor>>)},
        issued \in {Absent, Issued(<<N(2023)>>), Issued(<<N(999)>>)},
        pdf \in {"local"} }

(* page ranges under every kind, classified or forced *)
PageRuns ==
    { Run(TRUE,
          MkDict(<< <<"type", type>>, <<"title", S(tTitle)>>,
                    <<"author", L(<<pSmith>>)>>, <<"page", page>>,
                    <<"issued", Issued(<<N(2023)>>)>> >>),
          force_type, pdf, Null) :
        type \in {Absent} \cup {S(t) : t \in TypeTokens},
        page \in {Absent, S(<<"1","-","2">>), S(<<"1","-","-","2">>),
                  S(<<"1","-","-","-","2">>)},
        force_type \in {"none"} \cup ForceTypes,
        pdf \in {"skip", "download", "local-missing"} }

(* journal articles looked up in a ranking table *)
JournalRuns ==
    { Run(TRUE,
          MkDict(<< <<"type", S(sJournalArticle)>>, <<"title", S(tTitle)>>,
                    <<"author", L(<<pSmith>>)>>, <<"container-title", container>>,
                    <<"issued", Issued(<<N(2023)>>)>> >>),
          "none", "skip", sjr_data) :
        container \in QueryPool,
        sjr_data \in {Null} \cup {L(t) : t \in SeqsUpTo(RowPool, MaxRows)} }

(* conference papers: event, month and editors present or not *)
ConferenceRuns ==
    { Run(TRUE,
          MkDict(<< <<"type", S(sProceedingsArticle)>>, <<"title", S(tTitle)>>,
                    <<"author", L(<<pSmith>>)>>, <<"editor", editor>>,
                    <<"container-title", S(tMyConference)>>,
                    <<"event", event>>, <<"issued", issued>> >>),
          force_type, "skip", Null) :
        editor \in {Absent, L(<<pEditor>>)},
        event \in {Absent, MkDict(<< <<"name", S(<<"I","C","M","L">>)>> >>)},
        issued \in {Absent, Issued(<<N(2023)>>), Issued(<<N(2023), N(5)>>)},
        force_type \in {"none", "journal"} }

(* journal names with "the " inside a word or after the first word *)
InnerTheRuns ==
    { Run(TRUE,
          MkDict(<< <<"type", S(sJournalArticle)>>, <<"title", S(tTitle)>>,
                    <<"author", L(<<pSmith>>)>>, <<"container-title", S(container)>>,
                    <<"issued", Issued(<<N(2023)>>)>> >>),
          "none", "skip", L(<<Row(title, <<"Q","1">>, sAreas)>>)) :
        container \in {<<"B","a","t","h","e"," ","A","r","t">>,
                       <<"A","r","t"," ","t","h","e"," ","L","a","w">>},
        title \in {<<"B","a","a","r","t">>,
                   <<"B","a","t","h","e"," ","A","r","t">>,
                   <<"A","r","t"," ","L","a","w">>} }

(* templates, and titles that spell a placeholder token *)
TemplateRuns ==
    { [Run(TRUE,
           MkDict(<< <<"type", S(sJournalArticle)>>, <<"title", S(title)>>,
                     <<"author", L(<<pSmith>>)>>, <<"container-title", S(tNature)>>,
                     <<"issued", Issued(<<N(2023)>>)>> >>),
           "none", "skip", Null) EXCEPT !.template = template] :
        title \in { tTitle,
                   <<"O","n"," ","{","{","y","e","a","r","}","}">>,
                   <<"{","{","j","o","u","r","n","a","l","}","}"," ","N","o","w">>,
                   <<"T","h","e"," ","{","{","a","l","i","a","s","}","}">> },
        template \in { <<"{","{","t","i","t","l","e","}","}"," ","(","{","{","y","e","a","r","}","}",")"," ","{","{","f","o","o","}","}">>,
                      <<"{","{","y","e","a","r","}","}",":"," ","{","{","t","i","t","l","e","}","}","\n","{","{","b","i","b","t","e","x","}","}","\n","{","{","j","o","u","r","n","a","l","}","}">>,
                      <<"{","{"," ","t","i","t","l","e"," ","}","}"," ","{","{","t","i","t","l","e","s","}","}"," ","{","t","i","t","l","e","}"," ","{","{","{","{","y","e","a","r","}","}","}","}">> } }

Runs == ShapeRuns \cup PeopleRuns \cup PageRuns \cup JournalRuns \cup ConferenceRuns
            \cup InnerTheRuns \cup TemplateRuns

(* ---------------------------------------------------------------------- *)
(* process_doi as a state machine                                         *)
(* ---------------------------------------------------------------------- *)
VARIABLES inp, pc, metadata, pub_type, missing, alias, pdf_filename,
          content, pdf_file, md_file, printed

vars == <<inp, pc, metadata, pub_type, missing, alias, pdf_filename,
          content, pdf_file, md_file, printed>>

Init ==
    /\ inp \in Runs
    /\ pc = "start"
    /\ metadata = Null
    /\ pub_type = "None"
    /\ missing = <<>>
    /\ alias = <<>>
    /\ pdf_filename = Null
    /\ content = Null
    /\ pdf_file = Null
    /\ md_file = Null
    /\ printed = Null

(* line 703 *)
Fetch ==
    /\ pc = "start"
    /\ metadata' = get_metadata_from_doi(inp.fetched, inp.raw).metadata
    /\ pub_type' = get_metadata_from_doi(inp.fetched, inp.raw).pub_type
    /\ pc' = "fetched"
    /\ UNCHANGED <<inp, missing, alias, pdf_filename, content, pdf_file, md_file, printed>>

CheckMetadata_NoExit ==
    /\ pc = "fetched"
    /\ pc' = "loaded"
    /\ UNCHANGED <<inp, metadata, pub_type, missing, alias, pdf_filename, content,
                   pdf_file, md_file, printed>>

(* lines 704-706: exit(1) without metadata *)
CheckMetadata ==
    /\ pc = "fetched"
    /\ pc' = IF ~Truthy(metadata) THEN "exited" ELSE "loaded"
    /\ UNCHANGED <<inp, metadata, pub_type, missing, alias, pdf_filename, content,
                   pdf_file, md_file, printed>>

(* lines 708-722: forced type, and the print of metadata['type'] *)
SelectType ==
    /\ pc = "loaded"
    /\ IF inp.force_type # "none"
       THEN /\ pub_type' = inp.force_type
            /\ metadata' = SetKey(metadata, "type", S(TypeLabel(inp.force_type)))
            /\ pc' = "typed"
       ELSE /\ UNCHANGED <<pub_type, metadata>>
            /\ pc' = IF "type" \in DOMAIN metadata.v THEN "typed" ELSE "crashed"
    /\ UNCHANGED <<inp, missing, alias, pdf_filename, content, pdf_file, md_file, printed>>

(* line 725 *)
CheckRequired ==
    /\ pc = "typed"
    /\ missing' = check_required_fields(metadata, pub_type)
    /\ pc' = "checked"
    /\ UNCHANGED <<inp, metadata, pub_type, alias, pdf_filename, content,
                   pdf_file, md_file, printed>>

(* lines 737-762 *)
BuildAlias ==
    /\ pc = "checked"
    /\ IF DateRaises(metadata)
       THEN pc' = "crashed" /\ UNCHANGED alias
       ELSE pc' = "keyed" /\ alias' = MakeAlias(metadata)
    /\ UNCHANGED <<inp, metadata, pub_type, missing, pdf_filename, content,
                   pdf_file, md_file, printed>>

TitleOf(md) == Get(md, "title", S(<<>>)).v

(* lines 764-781 *)
HandlePdf ==
    /\ pc = "keyed"
    /\ IF inp.pdf \in {"local", "download"}
       THEN /\ pdf_filename' = S(rename_and_copy_pdf(alias, TitleOf(metadata)))
            /\ pdf_file' = S(rename_and_copy_pdf(alias, TitleOf(metadata)))
       ELSE UNCHANGED <<pdf_filename, pdf_file>>
    /\ pc' = "pdf"
    /\ UNCHANGED <<inp, metadata, pub_type, missing, alias, content, md_file, printed>>

(* line 784 *)
FillTemplate ==
    /\ pc = "pdf"
    /\ IF FillRaises(metadata)
       THEN pc' = "crashed" /\ UNCHANGED content
       ELSE /\ pc' = "filled"
            /\ content' = fill_template(inp.template, metadata, pdf_filename,
                                        inp.pdf_output_dir, inp.today, inp.sjr_data)
    /\ UNCHANGED <<inp, metadata, pub_type, missing, alias, pdf_filename,
                   pdf_file, md_file, printed>>

FixAmp(v) == Replace(v, <<"\\","&","a","m","p",";">>, <<"\\","&">>)

FixAmpFields(fields) == [i \in DOMAIN fields |-> Field(fields[i].k, FixAmp(fields[i].v))]

(* line 785: save_markdown *)
SaveMarkdown ==
    /\ pc = "filled"
    /\ md_file' = [tag |-> "file",
                   name |-> MarkdownName(alias, TitleOf(metadata)),
                   text |-> FixAmp(content.text),
                   placeholders |-> FixAmpFields(content.placeholders),
                   bibtex |-> [content.bibtex EXCEPT
                                  !.fields = FixAmpFields(content.bibtex.fields),
                                  !.text = FixAmp(content.bibtex.text)]]
    /\ pc' = "saved"
    /\ UNCHANGED <<inp, metadata, pub_type, missing, alias, pdf_filename, content,
                   pdf_file, printed>>

(* lines 788-793 *)
PrintBibtex ==
    /\ pc = "saved"
    /\ IF BibtexRaises(metadata)
       THEN pc' = "crashed" /\ UNCHANGED printed
       ELSE /\ pc' = "done"
            /\ printed' = LET bibtex == create_bibtex_string(metadata, alias)
                           IN [bibtex EXCEPT !.fields = FixAmpFields(bibtex.fields),
                                             !.text = FixAmp(bibtex.text)]
    /\ UNCHANGED <<inp, metadata, pub_type, missing, alias, pdf_filename, content,
                   pdf_file, md_file>>

Next ==
    \/ Fetch
    \/ CheckMetadata
    \/ SelectType
    \/ CheckRequired
    \/ BuildAlias
    \/ HandlePdf
    \/ FillTemplate
    \/ SaveMarkdown
    \/ PrintBibtex

Spec == Init /\ [][Next]_vars

(* ---------------------------------------------------------------------- *)
(* Properties                                                             *)
(* ---------------------------------------------------------------------- *)
RawType(tok) == IsStr(Get(inp.raw, "type", Null), tok)

RawContainerHas(word) ==
    /\ Get(inp.raw, "container-title", Absent).tag = "str"
    /\ Contains(Lower(Get(inp.raw, "container-title", Absent).v), word)

FirstMatchKind ==
    IF RawType(sProceedingsArticle) \/ RawContainerHas(sConference)
                                    \/ RawContainerHas(sProceedings)
    THEN "conference"
    ELSE IF RawType(sBookChapter) THEN "chapter"
    ELSE IF RawType(sBook) THEN "book"
    ELSE IF RawType(sJournalArticle) THEN "journal"
    ELSE "Misc"

(* C1: every record get_metadata_from_doi returns carries exactly one kind, *)
(* chosen by first match: Conference for a proceedings-article or a         *)
(* container-title containing "conference"/"proceedings" in any casing,     *)
(* then Chapter, Book, Journal by type token, Misc otherwise; a fetched     *)
(* record whose container-title is absent or a string is always returned,   *)
(* whatever its type token.                                                 *)
C1_FirstMatchClassification ==
    pc = "fetched" =>
        /\ metadata.tag = "dict" => pub_type = FirstMatchKind
        /\ (inp.fetched /\ Get(inp.raw, "container-title", Absent).tag \in {"absent", "str"})
              => metadata.tag = "dict"

C1_Witness ==
    /\ pc = "fetched"
    /\ RawType(sBook)
    /\ RawContainerHas(sConference)
    /\ Get(inp.raw, "container-title", Absent).v # Lower(Get(inp.raw, "container-title", Absent).v)
    /\ pub_type = "conference"

(* C2: once the lookup has returned no metadata the run stops at the exit: *)
(* no PDF is copied, no markdown file is written, no BibTeX is printed.    *)
C2_NothingWrittenWithoutMetadata ==
    (pc # "start" /\ ~Truthy(metadata)) =>
        /\ pc \in {"fetched", "exited"}
        /\ pdf_file.tag = "null"
        /\ md_file.tag = "null"
        /\ printed.tag = "null"

C2_Witness == pc = "exited" /\ ~inp.fetched /\ metadata.tag = "null"

(* C3: whenever the lookup returned a record, process_doi neither exits   *)
(* nor raises before the document is written and the BibTeX printed.      *)
C3_AlwaysCompletes ==
    (pc # "start" /\ metadata.tag = "dict") => pc \notin {"exited", "crashed"}


(* the journal lookup of the run: the query, the rows, the result *)
Looked == content.tag = "content" /\ IsJournalArticle(metadata) /\ inp.sjr_data.tag = "list"

Query == DocValue(metadata, "container-title")

Rows == inp.sjr_data.v

RowRatio(i) == Ratio(normalize_journal_name(Query), normalize_journal_name(Rows[i].Title))

NoExactRow == \A i \in DOMAIN Rows :
                normalize_journal_name(Rows[i].Title) # normalize_journal_name(Query)

Clears(i) == RowRatio(i).num * 10 > 9 * RowRatio(i).den

(* C4: the fuzzy fallback never returns a row whose ratio is <= 0.9; with *)
(* no exact match, when some row has ratio > 0.9 the row returned has the  *)
(* maximal ratio and is the first row of that ratio in table order, and    *)
(* when no row has ratio > 0.9 the result is None.                         *)
C4_FuzzyThreshold ==
    Looked =>
        /\ content.metrics.via = "fuzzy" => Clears(content.metrics.row)
        /\ (Query # <<>> /\ NoExactRow /\ \E i \in DOMAIN Rows : Clears(i)) =>
              /\ content.metrics.via = "fuzzy"
              /\ \A j \in DOMAIN Rows :
                    ~RatioGreater(RowRatio(j), RowRatio(content.metrics.row))
              /\ \A j \in 1..(content.metrics.row - 1) :
                    RatioGreater(RowRatio(content.metrics.row), RowRatio(j))
        /\ (NoExactRow /\ \A i \in DOMAIN Rows : ~Clears(i)) => content.metrics = NoMatch

C4_Witness ==
    /\ Looked
    /\ content.metrics.via = "fuzzy"
    /\ content.metrics.row = 1
    /\ \E j \in DOMAIN Rows :
          /\ j > 1
          /\ Rows[j].Title # Rows[1].Title
          /\ RowRatio(j) = RowRatio(1)

(* two names that differ only in letter casing, in " and " spelled " & " *)
(* or "&", or in a leading "The "                                         *)
AmpSpelled(name) ==
    Replace(Replace(name, sAnd, <<"&">>), <<" ","&"," ">>, <<"&">>)

WithoutLeadingThe(name) ==
    IF StartsWith(name, <<"t","h","e"," ">>) THEN SubSeq(name, 5, Len(name)) ELSE name

SameName(a, b) ==
    WithoutLeadingThe(AmpSpelled(Lower(a))) = WithoutLeadingThe(AmpSpelled(Lower(b)))

(* C5 as stated: for a non-empty query and any row whose title differs    *)
(* from it only in casing, "&"/"and" spelling or a leading "The ", the     *)
(* exact-match step returns that row's metrics.                            *)
C5_ThatRowReturned ==
    Looked =>
        \A i \in DOMAIN Rows :
            (Query # <<>> /\ SameName(Query, Rows[i].Title)) =>
                /\ content.metrics.via = "exact"
                /\ Rows[content.metrics.row] = Rows[i]

(* C5 amended: for such a row the two names normalize to the same string  *)
(* and the exact-match step returns the first row in table order whose     *)
(* normalized title equals the normalized query: that row itself unless an *)
(* earlier row normalizes to the same string.                              *)
C5_FirstEqualRowReturned ==
    Looked =>
        \A i \in DOMAIN Rows :
            (Query # <<>> /\ SameName(Query, Rows[i].Title)) =>
                /\ normalize_journal_name(Rows[i].Title) = normalize_journal_name(Query)
                /\ content.metrics.via = "exact"
                /\ content.metrics.row <= i
                /\ normalize_journal_name(Rows[content.metrics.row].Title)
                      = normalize_journal_name(Query)
                /\ \A j \in 1..(content.metrics.row - 1) :
                      normalize_journal_name(Rows[j].Title) # normalize_journal_name(Query)

C5_Witness ==
    /\ Looked
    /\ content.metrics.via = "exact"
    /\ content.metrics.row = 2
    /\ Rows[2].Title # Query
    /\ Lower(Rows[2].Title) # Lower(Query)
    /\ SameName(Query, Rows[2].Title)
    /\ Contains(Query, <<"&">>)

(* the citation key the claims describe: first valid person, then year *)
Keyed == pc \in {"keyed", "pdf", "filled", "saved", "done"}

People == AuthorsOrEditors(metadata)

FirstPersonSurname ==
    IF People = <<>> THEN sUnknown
    ELSE IF People[1].tag = "dict"
         THEN Replace(PersonField(People[1], "family"), <<" ">>, <<"_">>)
         ELSE SplitLast(Strip(People[1].v))

(* C6: the key is built from the first valid person of the validated list *)
(* (family name with spaces as underscores, or the last token of a bare    *)
(* string; "Unknown" only when there is no valid person) followed by the   *)
(* year; a later person never stands in for an earlier valid one.          *)
C6_KeyFromFirstValidPerson ==
    (Keyed /\ YearOf(metadata).tag = "int") =>
        alias = FirstPersonSurname \o StrOfNat(YearOf(metadata).v)

(* C7: without a year the key is the surname part alone, in process_doi   *)
(* and in fill_template.                                                   *)
C7_YearlessKey ==
    (Keyed /\ YearOf(metadata).tag = "null") =>
        /\ alias = get_first_valid_author(People)
        /\ content.tag = "content" => content.alias = get_first_valid_author(People)

(* C8: the citation key contains no whitespace character. *)
C8_NoWhitespaceInKey ==
    Keyed => \A i \in DOMAIN alias : ~IsSpace(alias[i])

Stem == alias \o <<"_">> \o clean_title_for_filename(TitleOf(metadata))

(* C9: the markdown file name and the PDF file name both start with the   *)
(* alias, unmodified, followed by "_" and the cleaned title.               *)
C9_SameStem ==
    /\ pdf_file.tag = "str" => StartsWith(pdf_file.v, Stem)
    /\ md_file.tag = "file" => StartsWith(md_file.name, Stem)

RawPage == Get(metadata, "page", S(<<>>)).v

(* C10: for every kind with a pages field, a raw "a-b" is "a--b" in the   *)
(* BibTeX pages field and the {{pages}} value of the document never        *)
(* contains a double hyphen.                                               *)
C10_InversePageConventions ==
    (content.tag = "content" /\ HasField(content.placeholders, "pages")) =>
        /\ ~Contains(FieldValue(content.placeholders, "pages"), <<"-","-">>)
        /\ (HasField(content.bibtex.fields, "pages") /\ ~Contains(RawPage, <<"-","-">>)) =>
              FieldValue(content.bibtex.fields, "pages")
                  = Replace(RawPage, <<"-">>, <<"-","-">>)

(* the value a declared source path resolves to in the record: a dotted   *)
(* path names a key of a nested object                                     *)
ResolvedSource(md, path) ==
    CASE path = "issued.date-parts" ->
            Get(Get(md, "issued", D(<<>>)), "date-parts", Null)
      [] path = "event.name" -> Get(Get(md, "event", D(<<>>)), "name", Null)
      [] OTHER -> Get(md, path, Null)

FalsySources(md, table) ==
    LET falsy(i) == ~Truthy(ResolvedSource(md, table[i][2]))
        picked == SelectSeq([j \in DOMAIN table |-> j], falsy)
    IN [i \in DOMAIN picked |-> table[picked[i]][1]]

Checked == pc \in {"checked", "keyed", "pdf", "filled", "saved", "done"}

(* C11: check_required_fields returns, in declared order, exactly the     *)
(* fields of the kind's table whose resolved source value (dotted paths    *)
(* included) is falsy, and an empty list for a kind without a table; the   *)
(* run goes on after the check.                                            *)
C11_MissingAreTheFalsySources ==
    Checked =>
        missing = IF pub_type \in DOMAIN type_fields
                  THEN FalsySources(metadata, type_fields[pub_type])
                  ELSE <<>>

(* a Book whose valid authors are none and whose valid editors are some *)
EditorsOnlyBook ==
    /\ content.tag = "content"
    /\ IsStr(Get(metadata, "type", Null), LabelBook)
    /\ ValidPeople(metadata, "author") = <<>>
    /\ ValidPeople(metadata, "editor") # <<>>

Editors == ValidPeople(metadata, "editor")

(* C12: for a Book with no valid author and a valid editor, the alias, the *)
(* author_list placeholder and the BibTeX author field are built from the   *)
(* editors, the editor_list placeholder is the empty string and the BibTeX  *)
(* editor field does not repeat the editors.                                *)
C12_EditorsMovedToAuthors ==
    EditorsOnlyBook =>
        /\ content.alias = get_first_valid_author(Editors) \o Format(YearOf(metadata))
        /\ FieldValue(content.placeholders, "author_list")
              = RStrip(<<"\n">> \o BulletLines(Editors))
        /\ FieldValue(content.bibtex.fields, "author") = BibNames(Editors)
        /\ FieldValue(content.placeholders, "editor_list") = <<>>
        /\ FieldValue(content.bibtex.fields, "editor") # BibNames(Editors)

(* the entry type that belongs to a document kind *)
KindEntryType(kind) ==
    CASE kind = "conference" -> "inproceedings"
      [] kind = "journal" -> "article"
      [] kind = "book" -> "book"
      [] kind = "chapter" -> "inbook"
      [] OTHER -> "misc"

FieldNames(fields) == [i \in DOMAIN fields |-> fields[i].k]

(* C13: the entry type of the BibTeX entry, in the document and as        *)
(* printed, is the one of the kind assigned to the record, classified or   *)
(* forced; a Misc record is a @misc entry with the common fields only.     *)
C13_EntryTypeOfKind ==
    /\ content.tag = "content" =>
          /\ content.bibtex.entry_type = KindEntryType(pub_type)
          /\ pub_type \in {"Misc", "misc"} =>
                FieldNames(content.bibtex.fields)
                    = <<"author", "title", "year", "doi", "type">>
    /\ printed.tag = "bibtex" => printed.entry_type = KindEntryType(pub_type)

IsPopulated(field) == field.v # <<>>

EntryLine(field) == <<"\t">> \o NameChars(field.k) \o <<"=", "{">> \o field.v \o <<"}">>

(* "@type{alias," then the given fields one per line, comma-separated, *)
(* then the closing brace on a line of its own                          *)
EntryOf(entry_type, key, fields) ==
    <<"@">> \o NameChars(entry_type) \o <<"{">> \o key \o <<",", "\n">>
        \o Join([i \in DOMAIN fields |-> EntryLine(fields[i])], <<",", "\n">>)
        \o <<"\n", "}">>

(* C14: the printed entry is "@type{alias," followed by exactly one       *)
(* "field={value}," line for each populated field, in the order of the     *)
(* fields (common, then the kind's table), the last comma removed and a    *)
(* closing brace: a field with an empty value has no line.                 *)
C14_OneLinePerPopulatedField ==
    printed.tag = "bibtex" =>
        printed.text = EntryOf(printed.entry_type, printed.key,
                               SelectSeq(printed.fields, IsPopulated))

IssuedParts == DateParts(metadata).v[1].v

SecondDatePart == IF Len(IssuedParts) >= 2 THEN Format(IssuedParts[2]) ELSE <<>>

(* C15: for a Conference record the month field of the BibTeX entry and   *)
(* the {{month}} placeholder both carry the second element of the issued   *)
(* date-parts, and both are empty when it has fewer than two elements.     *)
C15_MonthOnBothSurfaces ==
    (content.tag = "content" /\ IsStr(Get(metadata, "type", Null), LabelConference)) =>
        /\ FieldValue(content.placeholders, "month") = SecondDatePart
        /\ FieldValue(content.bibtex.fields, "month") = SecondDatePart

(* the normalization with "the " stripped only where it leads the name *)
NormalizeLeadingThe(name) ==
    IF name = <<>> THEN <<>>
    ELSE Strip(SelectSeq(
            WithoutLeadingThe(Replace(Replace(Lower(name), <<" ","&"," ">>, sAnd),
                                      <<"&">>, sAnd)),
            KeepAlnumSpace))

(* C16: normalize_journal_name lowercases, spells " & " and "&" as        *)
(* " and ", strips "the " only where it leads the name, drops what is      *)
(* neither alphanumeric nor a space, and trims; so a query and a row that  *)
(* match exactly are equal under that normalization.                       *)
C16_OnlyLeadingTheStripped ==
    Looked =>
        /\ normalize_journal_name(Query) = NormalizeLeadingThe(Query)
        /\ \A i \in DOMAIN Rows :
              normalize_journal_name(Rows[i].Title) = NormalizeLeadingThe(Rows[i].Title)
        /\ content.metrics.via = "exact" =>
              NormalizeLeadingThe(Rows[content.metrics.row].Title)
                  = NormalizeLeadingThe(Query)

(* the template filled in one pass: every defined token of the template   *)
(* replaced by its value, the inserted text never scanned again            *)
TokenAt(text, i, key) ==
    /\ i + Len(Token(key)) - 1 <= Len(text)
    /\ SubSeq(text, i, i + Len(Token(key)) - 1) = Token(key)

SimultaneousFill(text, placeholders) ==
    LET keyAt(i) == {k \in DOMAIN placeholders : TokenAt(text, i, placeholders[k].k)}
        hits == {i \in 1..(Len(text) - 1) :
                    text[i] = "{" /\ text[i + 1] = "{" /\ keyAt(i) # {}}
        n == Cardinality(hits)
        at == [j \in 1..n |-> CHOOSE i \in hits : Cardinality({h \in hits : h < i}) = j - 1]
        key == [j \in 1..n |-> CHOOSE k \in keyAt(at[j]) : TRUE]
        end == [j \in 0..n |-> IF j = 0 THEN 0
                                ELSE at[j] + Len(Token(placeholders[key[j]].k)) - 1]
    IN  Join([j \in 1..n |->
                 SubSeq(text, end[j - 1] + 1, at[j] - 1) \o placeholders[key[j]].v], <<>>)
            \o SubSeq(text, end[n] + 1, Len(text))

(* C17: the text fill_template returns is the template with every token   *)
(* of a defined placeholder replaced by that placeholder's value and all   *)
(* the rest verbatim, whatever the values contain.                         *)
C17_OnePassSubstitution ==
    pc = "filled" => content.text = SimultaneousFill(inp.template, content.placeholders)

====
